---------------------------- MODULE Spec2Model ----------------------------
(***************************************************************************)
(* Model of the Plano Water portal client (custom_components/plano_water): *)
(* PlanoWaterAPI (api.py) and PlanoWaterDataUpdateCoordinator              *)
(* (coordinator.py).                                                       *)
(*                                                                         *)
(* A coroutine runs without interruption from one await to the next, so    *)
(* one step of the model is one such run of one task: a call from the      *)
(* caller up to its first await, or the arrival of an awaited response up  *)
(* to the next await (or the return to the caller).  Python values are     *)
(* modelled as: None / a ClientSession by "none" / "open" / "closed";      *)
(* a dict by a function from its keys (the empty dict is << >>); text the  *)
(* portal sends by strings.  A library call that may raise is an input     *)
(* chosen by the environment.                                              *)
(***************************************************************************)
EXTENDS Integers, Sequences, FiniteSets, TLC

\* ---------------------------------------------------------------- bounds
NumTasks == 2      \* tasks that may call into one client instance
MaxRecords == 2    \* longest usage list the portal returns
MaxOrphans == 1    \* open sessions that lost their reference, counted up to this

Tasks == 1..NumTasks

\* ------------------------------------------------------------ the portal
HTTP_OK == 200

EmptyDict == << >>

IsEmpty(d) == DOMAIN d = {}

\* The login page: its status, each of the three required hidden inputs
\* ("absent", "novalue" for an input without a value attribute, or "value")
\* and whether the optional antiforgery input is there.
LoginPage(st, vs, vsg, ev, af) ==
    [kind |-> "resp", status |-> st, viewstate |-> vs, generator |-> vsg,
     validation |-> ev, antiforgery |-> af]

TransportError == [kind |-> "exc"]
NoResponse == [kind |-> "none"]

FullLoginPage == LoginPage(HTTP_OK, "value", "value", "value", TRUE)

\* What GET /Account/Login may produce.
LoginPages ==
    {TransportError, LoginPage(500, "value", "value", "value", TRUE)}
    \cup {LoginPage(HTTP_OK, vs, vsg, ev, TRUE) :
            vs \in {"absent", "value"}, vsg \in {"absent", "value"},
            ev \in {"absent", "value"}}
    \cup {LoginPage(HTTP_OK, "value", "value", "value", FALSE),
          LoginPage(HTTP_OK, "novalue", "value", "value", TRUE)}

LoginPagesFew ==
    {TransportError, FullLoginPage,
     LoginPage(HTTP_OK, "value", "absent", "value", TRUE)}

PostPage(st, w, a) ==
    [kind |-> "resp", status |-> st, welcome |-> w, account |-> a]

\* What POST /Account/Login may produce: the status and whether the content
\* holds "Welcome," and "Account Number:".
PostPages ==
    {TransportError, PostPage(500, TRUE, TRUE)}
    \cup {PostPage(HTTP_OK, w, a) : w \in BOOLEAN, a \in BOOLEAN}

PostPagesFew == {PostPage(HTTP_OK, TRUE, TRUE), PostPage(HTTP_OK, TRUE, FALSE)}

\* The account summary page: whether span#MainContent_lblAccountSummary
\* exists, what the three patterns capture in its text ("" when a pattern
\* does not match), and the meter dropdown: "absent", "unselected" (no
\* selected option) or "selected" (with the option's value attribute,
\* "absent" if it has none, and its text).
SummaryPage(st, span, acct, name, addr, sel, val, txt) ==
    [kind |-> "resp", status |-> st, span |-> span, acct |-> acct,
     name |-> name, addr |-> addr, select |-> sel, value |-> val, text |-> txt]

JanePage ==
    SummaryPage(HTTP_OK, TRUE, "12345", " Jane Doe ", "1 Main St",
                "selected", "99", " M-99 ")
BobPage ==
    SummaryPage(HTTP_OK, TRUE, "67890", "Bob Roe", "2 Oak Ave",
                "selected", "77", "M-77")
NoMeterPage ==
    SummaryPage(HTTP_OK, TRUE, "12345", " Jane Doe ", "",
                "unselected", "99", "M-99")
NoValuePage ==
    SummaryPage(HTTP_OK, TRUE, "", "", "", "selected", "absent", "M-99")
BlankPage ==
    SummaryPage(HTTP_OK, TRUE, "", "", "", "absent", "", "")
NoSpanPage ==
    SummaryPage(HTTP_OK, FALSE, "12345", "Jane Doe", "1 Main St",
                "selected", "99", "M-99")
ErrorSummaryPage ==
    SummaryPage(500, TRUE, "12345", "Jane Doe", "1 Main St",
                "selected", "99", "M-99")
NoPage == [kind |-> "none"]

SummaryPages ==
    {TransportError, ErrorSummaryPage, NoSpanPage, JanePage, BobPage,
     NoMeterPage, NoValuePage, BlankPage}

SummaryPagesFew == {JanePage, NoSpanPage}

\* One entry of the bill history list: billDate as sent ("" when the key is
\* missing) and totalGallonsUsed as text.
Today == "11/26/2024"
UsageRecord(d, q) == [billDate |-> d, totalGallonsUsed |-> q]

UsageRecords ==
    {UsageRecord(d, q) : d \in {"11/25/2024", Today}, q \in {"5", "7", "abc"}}
    \cup {UsageRecord("", "5")}

RECURSIVE SeqsUpTo(_, _)
SeqsUpTo(S, n) ==
    IF n = 0 THEN {<< >>}
    ELSE LET shorter == SeqsUpTo(S, n - 1)
         IN  shorter \cup {Append(l, r) : l \in shorter, r \in S}

UsageLists == SeqsUpTo(UsageRecords, MaxRecords)

\* The answer of POST MeterReads.aspx/GetBillHistory: "nod" is JSON that is
\* no dict with a "d" key, "badjson" a "d" that json.loads rejects, and
\* otherwise the decoded "d": its status flag, whether it has a "list", and
\* the list.
ReadsPage(st, shape, flag, hasList, l) ==
    [kind |-> "resp", status |-> st, shape |-> shape, flag |-> flag,
     hasList |-> hasList, list |-> l]

ReadsPages ==
    {TransportError,
     ReadsPage(500, "ok", TRUE, TRUE, << >>),
     ReadsPage(HTTP_OK, "nod", TRUE, TRUE, << >>),
     ReadsPage(HTTP_OK, "badjson", TRUE, TRUE, << >>),
     ReadsPage(HTTP_OK, "ok", FALSE, TRUE, << >>),
     ReadsPage(HTTP_OK, "ok", TRUE, FALSE, << >>)}
    \cup {ReadsPage(HTTP_OK, "ok", TRUE, TRUE, l) : l \in UsageLists}

ReadsPagesFew ==
    {ReadsPage(HTTP_OK, "ok", TRUE, TRUE, <<UsageRecord(Today, "5")>>),
     ReadsPage(HTTP_OK, "nod", TRUE, TRUE, << >>)}


\* ------------------------------------------------------- pure functions

\* soup.find("input", {"name": ...})["value"] succeeds: the input exists and
\* has a value attribute (None["value"] and a missing attribute both raise).
FieldReadable(f) == f = "value"

RequiredFieldsTwo(page) ==
    FieldReadable(page.viewstate) /\ FieldReadable(page.validation)
RequiredFieldsPresent(page) ==
    /\ FieldReadable(page.viewstate)
    /\ FieldReadable(page.generator)
    /\ FieldReadable(page.validation)

LoginVerifiedEither(page) == page.welcome \/ page.account
LoginVerified(page) == page.welcome /\ page.account

\* str.strip() on the texts the portal sends.
Strip(s) ==
    CASE s = " Jane Doe " -> "Jane Doe"
      [] s = " M-99 " -> "M-99"
      [] OTHER -> s

AccountKeys == {"account_number", "name", "address", "meter_id", "meter_number"}

\* The dict built from a summary page that has the summary span.
ParseAccountInfo(page) ==
    LET picked == page.select = "selected"
    IN  [account_number |-> page.acct,
         name |-> Strip(page.name),
         address |-> Strip(page.addr),
         meter_id |-> IF picked /\ page.value # "absent" THEN page.value ELSE "",
         meter_number |-> IF picked THEN Strip(page.text) ELSE ""]

\* dict.get(key) of a dict of strings, as a truth value.
HasValue(d, key) == key \in DOMAIN d /\ d[key] # ""

\* datetime.strptime(billDate, "%m/%d/%Y"): an ordinal, or a ValueError.
DateParses(d) == d \in {"11/25/2024", "11/26/2024"}
DateKey(d) == IF d = "11/26/2024" THEN 20241126 ELSE 20241125
MonthDay(d) ==
    CASE d = "11/26/2024" -> "11/26" [] d = "11/25/2024" -> "11/25" [] OTHER -> ""

\* float(text): a number, or a ValueError.
IsNumeric(q) == q \in {"5", "7"}
Float(q) == IF q = "7" THEN 7 ELSE 5

RECURSIVE InsertDesc(_, _)
InsertDesc(sorted, r) ==
    IF sorted = << >> THEN <<r>>
    ELSE IF DateKey(Head(sorted).billDate) >= DateKey(r.billDate)
         THEN <<Head(sorted)>> \o InsertDesc(Tail(sorted), r)
         ELSE <<r>> \o sorted

\* sorted(usage_list, key=billDate, reverse=True): stable, newest first.
RECURSIVE SortedDesc(_)
SortedDesc(l) ==
    IF l = << >> THEN << >>
    ELSE InsertDesc(SortedDesc(SubSeq(l, 1, Len(l) - 1)), l[Len(l)])

RECURSIVE SumSeq(_)
SumSeq(l) == IF l = << >> THEN 0 ELSE Head(l) + SumSeq(Tail(l))

Snapshot(cur, day, last, raw) ==
    [current_usage |-> cur, daily_usage |-> day, last_reading |-> last,
     raw_data |-> raw]

ParseUsageData(usage_list) ==
    IF usage_list = << >> THEN EmptyDict
    ELSE IF \E i \in 1..Len(usage_list) : ~DateParses(usage_list[i].billDate)
    THEN Snapshot(0, 0, "None", usage_list)
    ELSE LET latest == SortedDesc(usage_list)[1]
             todays == SelectSeq(usage_list,
                                 LAMBDA r : MonthDay(r.billDate) = MonthDay(Today))
             allNumeric ==
                 \A i \in 1..Len(todays) : IsNumeric(todays[i].totalGallonsUsed)
             gallons == [i \in 1..Len(todays) |-> Float(todays[i].totalGallonsUsed)]
         IN  IF ~IsNumeric(latest.totalGallonsUsed)
             THEN Snapshot(0, 0, "None", usage_list)
             ELSE Snapshot(Float(latest.totalGallonsUsed),
                           IF allNumeric THEN SumSeq(gallons) ELSE 0,
                           latest.billDate, usage_list)


\* ------------------------------------------------------------- the state
VARIABLES
    session,       \* self.session: "none", or a ClientSession "open" / "closed"
    orphaned,      \* open ClientSessions that self.session no longer refers to
    account_info,  \* self.account_info
    stack,         \* per task: the suspended frames, the awaiting one last
    op,            \* per task: the operation its caller invoked last
    result,        \* per task: what that operation gave its caller
    log,           \* per task: the events of that operation, in order
    hist,          \* per task: what its last login and usage fetch were answered
    lastPage,      \* the summary page of the last parse that reached line 142
    closeOverlap,  \* two async_close calls have been in flight together
    callers,       \* the tasks that call into the client
    detail         \* whether log and hist are kept and all fixtures used

vars ==
    <<session, orphaned, account_info, stack, op, result, log, hist, lastPage,
      closeOverlap, callers, detail>>

VBool(b) == [kind |-> "bool", b |-> b]
VDict(d) == [kind |-> "dict", d |-> d]
VNone == [kind |-> "none"]
VRaised == [kind |-> "raised"]
VUpdateFailed == [kind |-> "UpdateFailed"]
VPending == [kind |-> "pending"]
VRecord(info, usage) ==
    [kind |-> "record", account_info |-> info, usage_data |-> usage]

NoHist == [get |-> NoResponse, post |-> NoResponse, reads |-> NoResponse]

\* The part of the state one task's run reads and writes.
Ctx(t) ==
    [session |-> session, orphaned |-> orphaned, account_info |-> account_info,
     lastPage |-> lastPage, stk |-> stack[t], log |-> log[t], hist |-> hist[t],
     res |-> result[t], trace |-> detail]

Log(c, ev) == IF c.trace THEN [c EXCEPT !.log = Append(@, ev)] ELSE c
Seen(c, which, resp) == IF c.trace THEN [c EXCEPT !.hist[which] = resp] ELSE c
Push(c, frame) == [c EXCEPT !.stk = Append(@, frame)]
Top(stk) == stk[Len(stk)]
Pop(stk) == SubSeq(stk, 1, Len(stk) - 1)
Finish(c, v) == [c EXCEPT !.res = v, !.stk = << >>]

\* self.session = new: the session referred to so far, if still open, is
\* then referred to by nothing.
SetSession(c, new) ==
    [c EXCEPT !.session = new,
              !.orphaned = IF c.session = "open" THEN @ + 1 ELSE @]

\* self.session.get / .post can be awaited: self.session is a ClientSession
\* (None has no such attribute) that is not closed (aiohttp raises
\* RuntimeError("Session is closed") before it sends anything).
Usable(sess) == sess = "open"

RefreshFrames == {"ref_login", "ref_gai", "ref_gud"}

\* An exception that leaves async_login uncaught: no frame of api.py above
\* it catches, _async_update_data (coordinator.py 58-59) does.
Raise(c) ==
    IF c.stk # << >> /\ c.stk[1] \in RefreshFrames
    THEN Finish(Log(c, "raise_UpdateFailed"), VUpdateFailed)
    ELSE Finish(c, VRaised)

RECURSIVE Return(_, _, _)


\* ---------------------------------------------- PlanoWaterAPI.async_login

ReturnLogin(c, b, ct) ==
    Return(Log(c, IF b THEN "ret_login:true" ELSE "ret_login:false"), VBool(b), ct)

\* if self.session is None (line 37)
AlwaysNeedsSession(sess) == TRUE
NeedsSession(sess) == sess = "none"

\* Lines 42-44: the try block up to the await of the GET.
LoginGet(c, ct) ==
    IF Usable(c.session)
    THEN Push(Log(c, "GET_login"), "login_get")
    ELSE ReturnLogin(c, FALSE, ct)

\* Lines 37-44.  ct: aiohttp.ClientSession(...) raises, outside the try.
LoginEntry(c, ct) ==
    LET c0 == Log([c EXCEPT !.hist.get = NoResponse, !.hist.post = NoResponse],
                  "call_login")
    IN  IF NeedsSession(c0.session)
        THEN IF ct THEN Raise(Log(c0, "create_raises"))
             ELSE LoginGet(Log(SetSession(c0, "open"), "create"), ct)
        ELSE LoginGet(c0, ct)

\* Lines 45-80: the login page arrived (or the GET raised); up to the await
\* of the POST.
OnLoginPage(c, page, ct) ==
    LET c0 == Seen(c, "get", page)
    IN  IF page.kind = "exc" THEN ReturnLogin(c0, FALSE, ct)
        ELSE IF page.status # HTTP_OK THEN ReturnLogin(c0, FALSE, ct)
        ELSE IF ~RequiredFieldsPresent(page) THEN ReturnLogin(c0, FALSE, ct)
        ELSE IF ~Usable(c0.session) THEN ReturnLogin(c0, FALSE, ct)
        ELSE Push(Log(c0, "POST_login"), "login_post")

\* Lines 81-96: the answer to the POST arrived (or the POST raised).
OnLoginPost(c, page, ct) ==
    LET c0 == Seen(c, "post", page)
    IN  IF page.kind = "exc" THEN ReturnLogin(c0, FALSE, ct)
        ELSE IF page.status # HTTP_OK THEN ReturnLogin(c0, FALSE, ct)
        ELSE ReturnLogin(c0, LoginVerified(page), ct)

\* ------------------------------------- PlanoWaterAPI.async_get_account_info

ReturnGai(c, d, ct) ==
    Return(Log(c, IF IsEmpty(d) THEN "ret_gai:empty" ELSE "ret_gai:dict"),
           VDict(d), ct)

\* if not self.session (line 100)
GaiNeverLogsIn(sess) == FALSE
GaiNeedsLogin(sess) == sess = "none"

\* Lines 104-105: the try block up to the await of the GET.
GaiBody(c, ct) ==
    IF Usable(c.session)
    THEN Push(Log(c, "GET_summary"), "gai_get")
    ELSE ReturnGai(c, EmptyDict, ct)

\* Lines 98-105.
EnterGai(c, ct) ==
    LET c0 == Log(c, "call_gai")
    IN  IF GaiNeedsLogin(c0.session)
        THEN LoginEntry(Push(c0, "gai_login"), ct)
        ELSE GaiBody(c0, ct)

\* Lines 142-148: self.account_info = {...}
StoreAccountNumberOnly(c, page) ==
    [c EXCEPT !.account_info = [account_number |-> page.acct], !.lastPage = page]
StoreAccountInfo(c, page) ==
    [c EXCEPT !.account_info = ParseAccountInfo(page), !.lastPage = page]

\* Lines 106-154: the summary page arrived (or the GET raised).
OnSummary(c, page, ct) ==
    IF page.kind = "exc" THEN ReturnGai(c, EmptyDict, ct)
    ELSE IF page.status # HTTP_OK THEN ReturnGai(c, EmptyDict, ct)
    ELSE IF ~page.span THEN ReturnGai(c, EmptyDict, ct)
    ELSE LET c0 == StoreAccountInfo(c, page)
         IN  ReturnGai(c0, c0.account_info, ct)

\* --------------------------------------- PlanoWaterAPI.async_get_usage_data

ReturnGud(c, d, ct) ==
    Return(Log(c, IF IsEmpty(d) THEN "ret_gud:empty" ELSE "ret_gud:dict"),
           VDict(d), ct)

\* if not self.session or not self.account_info (line 158)
GudNeedsLogin(sess, info) == sess = "none" \/ IsEmpty(info)

\* Lines 163-192: the meter check and the try block up to the await of the
\* POST.
GudBody(c, ct) ==
    IF ~HasValue(c.account_info, "meter_id") THEN ReturnGud(c, EmptyDict, ct)
    ELSE IF ~Usable(c.session) THEN ReturnGud(c, EmptyDict, ct)
    ELSE Push(Log(c, "POST_reads"), "gud_post")

\* Lines 156-192.
EnterGud(c, ct) ==
    LET c0 == Log(c, "call_gud")
    IN  IF GudNeedsLogin(c0.session, c0.account_info)
        THEN LoginEntry(Push(c0, "gud_login"), ct)
        ELSE GudBody(c0, ct)

\* Lines 193-210: the answer arrived (or the POST raised).
OnReads(c, page, ct) ==
    LET c0 == Seen(c, "reads", page)
    IN  IF page.kind = "exc" THEN ReturnGud(c0, EmptyDict, ct)
        ELSE IF page.status # HTTP_OK THEN ReturnGud(c0, EmptyDict, ct)
        ELSE IF page.shape # "ok" THEN ReturnGud(c0, EmptyDict, ct)
        ELSE IF ~(page.flag /\ page.hasList) THEN ReturnGud(c0, EmptyDict, ct)
        ELSE ReturnGud(c0, ParseUsageData(page.list), ct)

\* ------------------------------------------------ PlanoWaterAPI.async_close

\* if self.session (line 255)
CloseNeeded(sess) == sess # "none"

\* Lines 255-256: session.close() marks the session closed and is awaited.
EnterClose(c) ==
    IF CloseNeeded(c.session)
    THEN Push(Log([c EXCEPT !.session = "closed"], "close"), "close_wait")
    ELSE Finish(c, VNone)

\* Line 257: self.session = None
KeepSession(c) == c
DropSession(c) == SetSession(c, "none")

OnClosed(c) == Finish(DropSession(c), VNone)

\* ------------------- PlanoWaterDataUpdateCoordinator._async_update_data

\* Lines 40, 46, 51 with 58-59: raise UpdateFailed(...), caught and raised
\* again as UpdateFailed.
RefreshFails(c) == Finish(Log(c, "raise_UpdateFailed"), VUpdateFailed)

\* Line 39.
EnterRefresh(c, ct) == LoginEntry(Push(Log(c, "ref:login"), "ref_login"), ct)

\* if not self.api.account_info (line 43)
AlwaysFetchInfo(info) == TRUE
RefreshNeedsInfo(info) == IsEmpty(info)

\* Lines 49-51.
RefreshUsage(c, ct) == EnterGud(Push(Log(c, "ref:gud"), "ref_gud"), ct)

\* Lines 39-47: async_login returned ok.
AfterRefreshLogin(c, ok, ct) ==
    IF ~ok THEN RefreshFails(c)
    ELSE IF RefreshNeedsInfo(c.account_info)
    THEN EnterGai(Push(Log(c, "ref:gai"), "ref_gai"), ct)
    ELSE RefreshUsage(c, ct)

\* Lines 45-49: async_get_account_info returned info.
AfterRefreshInfo(c, info, ct) ==
    IF IsEmpty(info) THEN RefreshFails(c) ELSE RefreshUsage(c, ct)

\* Lines 50-56: async_get_usage_data returned usage.
AfterRefreshUsage(c, usage) ==
    IF IsEmpty(usage) THEN RefreshFails(c)
    ELSE Finish(c, VRecord(c.account_info, usage))

\* ----------------------------------------------------------- the returns

\* A coroutine returns v: its caller, the frame below, goes on with it.
Return(c, v, ct) ==
    IF c.stk = << >> THEN Finish(c, v)
    ELSE LET frame == Top(c.stk)
             c0 == [c EXCEPT !.stk = Pop(c.stk)]
         IN  CASE frame = "gai_login" ->
                    IF v.b THEN GaiBody(c0, ct) ELSE ReturnGai(c0, EmptyDict, ct)
               [] frame = "gud_login" ->
                    IF v.b THEN EnterGai(Push(c0, "gud_gai"), ct)
                    ELSE ReturnGud(c0, EmptyDict, ct)
               [] frame = "gud_gai" -> GudBody(c0, ct)
               [] frame = "ref_login" -> AfterRefreshLogin(c0, v.b, ct)
               [] frame = "ref_gai" -> AfterRefreshInfo(c0, v.d, ct)
               [] frame = "ref_gud" -> AfterRefreshUsage(c0, v.d)


\* -------------------------------------------------------------- the steps

Awaiting(t, frame) == stack[t] # << >> /\ Top(stack[t]) = frame

\* The task's context as its awaiting frame resumes.
Resumed(t) == [Ctx(t) EXCEPT !.stk = Pop(stack[t])]

\* The task's context as its caller invokes an operation.
Called(t) ==
    [Ctx(t) EXCEPT !.log = << >>, !.res = VPending, !.hist.reads = NoResponse]

\* Whether aiohttp.ClientSession(...) raises, should this run get to it: a
\* run creates a session only if it starts with none.
CreateOutcomes == IF session = "none" THEN BOOLEAN ELSE {FALSE}

Commit(t, c) ==
    /\ c.orphaned <= MaxOrphans
    /\ session' = c.session
    /\ orphaned' = c.orphaned
    /\ account_info' = c.account_info
    /\ lastPage' = c.lastPage
    /\ stack' = [stack EXCEPT ![t] = c.stk]
    /\ log' = [log EXCEPT ![t] = c.log]
    /\ hist' = [hist EXCEPT ![t] = c.hist]
    /\ result' = [result EXCEPT ![t] = c.res]
    /\ UNCHANGED <<callers, detail>>

Idle(t) == t \in callers /\ stack[t] = << >>

CallLogin(t) ==
    /\ Idle(t)
    /\ \E ct \in CreateOutcomes : Commit(t, LoginEntry(Called(t), ct))
    /\ op' = [op EXCEPT ![t] = "login"]
    /\ UNCHANGED closeOverlap

CallGetAccountInfo(t) ==
    /\ Idle(t)
    /\ \E ct \in CreateOutcomes : Commit(t, EnterGai(Called(t), ct))
    /\ op' = [op EXCEPT ![t] = "get_account_info"]
    /\ UNCHANGED closeOverlap

CallGetUsageData(t) ==
    /\ Idle(t)
    /\ \E ct \in CreateOutcomes : Commit(t, EnterGud(Called(t), ct))
    /\ op' = [op EXCEPT ![t] = "get_usage_data"]
    /\ UNCHANGED closeOverlap

\* async_close, also as called by the coordinator's async_shutdown.
CallClose(t) ==
    /\ Idle(t)
    /\ Commit(t, EnterClose(Called(t)))
    /\ op' = [op EXCEPT ![t] = "close"]
    /\ closeOverlap' =
         (closeOverlap \/ (CloseNeeded(session)
                           /\ \E u \in Tasks \ {t} : Awaiting(u, "close_wait")))

CallRefresh(t) ==
    /\ Idle(t)
    /\ \E ct \in CreateOutcomes : Commit(t, EnterRefresh(Called(t), ct))
    /\ op' = [op EXCEPT ![t] = "refresh"]
    /\ UNCHANGED closeOverlap

LoginPageArrives(t) ==
    /\ Awaiting(t, "login_get")
    /\ \E page \in (IF detail THEN LoginPages ELSE LoginPagesFew), ct \in CreateOutcomes :
         Commit(t, OnLoginPage(Resumed(t), page, ct))
    /\ UNCHANGED <<op, closeOverlap>>

LoginPostAnswered(t) ==
    /\ Awaiting(t, "login_post")
    /\ \E page \in (IF detail THEN PostPages ELSE PostPagesFew), ct \in CreateOutcomes :
         Commit(t, OnLoginPost(Resumed(t), page, ct))
    /\ UNCHANGED <<op, closeOverlap>>

SummaryArrives(t) ==
    /\ Awaiting(t, "gai_get")
    /\ \E page \in (IF detail THEN SummaryPages ELSE SummaryPagesFew),
          ct \in CreateOutcomes :
         Commit(t, OnSummary(Resumed(t), page, ct))
    /\ UNCHANGED <<op, closeOverlap>>

ReadsArrive(t) ==
    /\ Awaiting(t, "gud_post")
    /\ \E page \in (IF detail THEN ReadsPages ELSE ReadsPagesFew), ct \in CreateOutcomes :
         Commit(t, OnReads(Resumed(t), page, ct))
    /\ UNCHANGED <<op, closeOverlap>>

SessionClosed(t) ==
    /\ Awaiting(t, "close_wait")
    /\ Commit(t, OnClosed(Resumed(t)))
    /\ UNCHANGED <<op, closeOverlap>>

Next ==
    \E t \in Tasks :
        \/ CallLogin(t)
        \/ CallGetAccountInfo(t)
        \/ CallGetUsageData(t)
        \/ CallClose(t)
        \/ CallRefresh(t)
        \/ LoginPageArrives(t)
        \/ LoginPostAnswered(t)
        \/ SummaryArrives(t)
        \/ ReadsArrive(t)
        \/ SessionClosed(t)

\* The client as constructed (api.py 27-33), no call made yet.
Constructed ==
    /\ session = "none"
    /\ orphaned = 0
    /\ account_info = EmptyDict
    /\ lastPage = NoPage
    /\ stack = [t \in Tasks |-> << >>]
    /\ op = [t \in Tasks |-> "idle"]
    /\ result = [t \in Tasks |-> [kind |-> "idle"]]
    /\ log = [t \in Tasks |-> << >>]
    /\ hist = [t \in Tasks |-> NoHist]
    /\ closeOverlap = FALSE

\* One caller, each call made after the one before has returned.
Init == Constructed /\ callers = {1} /\ detail = TRUE

Spec == Init /\ [][Next]_vars

\* Several tasks call into the same client; their runs interleave at the
\* awaits.
InitConcurrent == Constructed /\ callers = Tasks /\ detail = FALSE

SpecConcurrent == InitConcurrent /\ [][Next]_vars


\* ------------------------------------------------------------ properties

ClientOps == {"login", "get_account_info", "get_usage_data"}

Done(t, o) == op[t] = o /\ stack[t] = << >>

Occurs(ev, l) == \E i \in 1..Len(l) : l[i] = ev

Count(ev, l) == Len(SelectSeq(l, LAMBDA e : e = ev))

\* A step in which task 1's caller invokes operation o.
Invokes(o) == stack[1] = << >> /\ op'[1] = o

\* The login the task made last has returned; what it returned.
LoginReturned(t) ==
    /\ Occurs("call_login", log[t])
    /\ Count("call_login", log[t]) =
         Count("ret_login:true", log[t]) + Count("ret_login:false", log[t])
LoginGave(t) ==
    LET rets == SelectSeq(log[t],
                          LAMBDA e : e \in {"ret_login:true", "ret_login:false"})
    IN  rets[Len(rets)] = "ret_login:true"

\* What the last login was answered.
GetOk(h) == h.get.kind = "resp" /\ h.get.status = HTTP_OK
AllThreeFields(h) ==
    /\ h.get.viewstate = "value"
    /\ h.get.generator = "value"
    /\ h.get.validation = "value"
PostOk(h) == h.post.kind = "resp" /\ h.post.status = HTTP_OK
BothMarkers(h) == h.post.welcome /\ h.post.account

\* C1 (as claimed): login, get_account_info and get_usage_data always give
\* their caller a value (false or a dict) and never an exception, also
\* when creating the session raises.
C1_NeverPropagates ==
    \A t \in Tasks :
        (op[t] \in ClientOps /\ stack[t] = << >>) =>
            /\ result[t].kind \in {"bool", "dict"}
            /\ Occurs("create_raises", log[t]) =>
                   \/ (result[t].kind = "bool" /\ ~result[t].b)
                   \/ (result[t].kind = "dict" /\ IsEmpty(result[t].d))

\* C2: a login that returns gives true exactly when the login page came
\* with status OK and all three hidden fields, the POST was answered with
\* status OK, and the content held both markers; otherwise it gives false.
C2_LoginTrueExactlyWhen ==
    \A t \in Tasks :
        /\ LoginReturned(t) =>
             (LoginGave(t) <=>
                (GetOk(hist[t]) /\ AllThreeFields(hist[t])
                 /\ PostOk(hist[t]) /\ BothMarkers(hist[t])))
        /\ Done(t, "login") /\ LoginReturned(t) =>
             result[t] = VBool(LoginGave(t))

C2_Witness ==
    /\ Done(1, "login")
    /\ result[1] = VBool(TRUE)
    /\ hist[1].get = LoginPage(HTTP_OK, "value", "value", "value", FALSE)
    /\ hist[1].post = PostPage(HTTP_OK, TRUE, TRUE)

\* C3: when the login page lacks one of the three hidden fields, login
\* returns false and issues no POST; a POST is issued only after a login
\* page with status OK and all three fields.
C3_NoPostWithoutFields ==
    \A t \in Tasks :
        /\ (GetOk(hist[t]) /\ ~AllThreeFields(hist[t])) =>
             /\ hist[t].post = NoResponse
             /\ LoginReturned(t) => (~LoginGave(t) /\ ~Occurs("POST_login", log[t]))
             /\ Done(t, "login") => result[t] = VBool(FALSE)
        /\ Occurs("POST_login", log[t]) =>
             (GetOk(hist[t]) /\ AllThreeFields(hist[t]))

C3_Witness ==
    /\ Done(1, "login")
    /\ hist[1].get = LoginPage(HTTP_OK, "value", "absent", "value", TRUE)
    /\ log[1] = <<"call_login", "create", "GET_login", "ret_login:false">>
    /\ result[1] = VBool(FALSE)

\* C4: account_info is empty until a summary page is parsed, and from then
\* on is the whole five-key dict of the page parsed last; a step changes it
\* only by such a parse, so a fetch that fails leaves it as it was.
C4_Whole ==
    /\ lastPage = NoPage => account_info = EmptyDict
    /\ lastPage # NoPage =>
         /\ DOMAIN account_info = AccountKeys
         /\ account_info = ParseAccountInfo(lastPage)
         /\ lastPage.kind = "resp" /\ lastPage.status = HTTP_OK /\ lastPage.span

C4_OnlyByParse ==
    (account_info' # account_info \/ lastPage' # lastPage) =>
        /\ Occurs("ret_gai:dict", log'[1])
        /\ ~Occurs("ret_gai:empty", log'[1])
        /\ account_info' = ParseAccountInfo(lastPage')

\* C4: account_info is always empty or the whole dict of the last parse,
\* and only a successful parse changes it.
C4_AccountInfoNeverPartial == [](C4_Whole) /\ [][C4_OnlyByParse]_vars

C4_Witness ==
    /\ Done(1, "get_account_info")
    /\ result[1] = VDict(EmptyDict)
    /\ Occurs("GET_summary", log[1])
    /\ lastPage = JanePage
    /\ account_info = ParseAccountInfo(JanePage)
    /\ account_info.name = "Jane Doe"


\* What the claim of C5 takes a usage list to: the first record's quantity
\* and date, the sum over all records, what is not a number counted as 0.
Quantity(q) == IF q = "5" THEN 5 ELSE IF q = "7" THEN 7 ELSE 0

ClaimedSnapshot(l) ==
    Snapshot(IF l = << >> THEN 0 ELSE Quantity(l[1].totalGallonsUsed),
             SumSeq([i \in 1..Len(l) |-> Quantity(l[i].totalGallonsUsed)]),
             IF l = << >> THEN "None" ELSE l[1].billDate,
             l)

\* C5 (as claimed): whatever list of records the portal returns, the empty
\* one included, get_usage_data gives the snapshot of that list: the first
\* record's quantity and timestamp, the sum of all quantities, the list.
C5_SnapshotOfAllRecords ==
    \A t \in Tasks :
        (Done(t, "get_usage_data") /\ hist[t].reads.kind = "resp"
         /\ hist[t].reads.status = HTTP_OK /\ hist[t].reads.shape = "ok"
         /\ hist[t].reads.flag /\ hist[t].reads.hasList) =>
            /\ result[t].kind = "dict"
            /\ DOMAIN result[t].d = DOMAIN ClaimedSnapshot(hist[t].reads.list)
            /\ result[t].d = ClaimedSnapshot(hist[t].reads.list)

RefreshCalls(l) == SelectSeq(l, LAMBDA e : e \in {"ref:login", "ref:gai", "ref:gud"})

RefreshOrders ==
    {<<"ref:login">>, <<"ref:login", "ref:gai">>, <<"ref:login", "ref:gud">>,
     <<"ref:login", "ref:gai", "ref:gud">>}

\* C6: a refresh ends with a record whose two parts are not empty, or with
\* UpdateFailed, and with nothing else; no record follows a login that
\* gave false, an empty account_info or an empty usage fetch; the
\* coordinator calls login, then get_account_info only when the cached
\* account_info is empty, then get_usage_data.
C6_Outcome ==
    /\ Done(1, "refresh") =>
         /\ result[1].kind \in {"record", "UpdateFailed"}
         /\ result[1].kind = "record" =>
              /\ ~IsEmpty(result[1].account_info)
              /\ ~IsEmpty(result[1].usage_data)
              /\ result[1].account_info = account_info
              /\ ~Occurs("ret_login:false", log[1])
              /\ ~Occurs("ret_gai:empty", log[1])
              /\ ~Occurs("ret_gud:empty", log[1])
              /\ ~Occurs("create_raises", log[1])
              /\ Occurs("ref:gud", log[1])
    /\ op[1] = "refresh" => RefreshCalls(log[1]) \in RefreshOrders

C6_InfoOnlyIfEmpty ==
    /\ Count("ref:gai", log'[1]) > Count("ref:gai", log[1]) => IsEmpty(account_info)
    /\ (Count("ref:gud", log'[1]) > Count("ref:gud", log[1])
        /\ ~Occurs("ref:gai", log'[1])) => ~IsEmpty(account_info)

\* C6: the outcomes of a refresh and the order of its calls.
C6_RefreshOutcomes == [](C6_Outcome) /\ [][C6_InfoOnlyIfEmpty]_vars

C6_Witness ==
    /\ Done(1, "refresh")
    /\ result[1].kind = "record"
    /\ RefreshCalls(log[1]) = <<"ref:login", "ref:gud">>
    /\ result[1].usage_data.current_usage = 7


Requests == {"GET_login", "POST_login", "GET_summary", "POST_reads"}

\* In l a session is created before the first request, if there is any.
CreatesBeforeRequests(l) ==
    \A i \in 1..Len(l) :
        l[i] \in Requests => \E j \in 1..(i - 1) : l[j] = "create"

\* C7: close does not raise and leaves self.session empty; a close that
\* finds it empty changes nothing; the client operation called next on the
\* empty reference creates a session before it issues a request.
C7_Closed ==
    Done(1, "close") => (session = "none" /\ result[1] = VNone)

C7_Again ==
    (Invokes("close") /\ session = "none") =>
        /\ UNCHANGED <<session, orphaned, account_info, lastPage>>
        /\ stack'[1] = << >>
        /\ result'[1] = VNone

C7_Recreates ==
    (session = "none" /\ \E o \in ClientOps : Invokes(o)) =>
        /\ CreatesBeforeRequests(log'[1])
        /\ session' = "none" <=> result'[1] = VRaised

\* C7: close leaves the reference empty, a repeated close changes nothing,
\* and the next operation creates a session before any request.
C7_CloseIdempotent ==
    [](C7_Closed) /\ [][C7_Again]_vars /\ [][C7_Recreates]_vars

\* A close that found nothing to release, after a session had been in use.
C7_Witness ==
    /\ Done(1, "close")
    /\ log[1] = << >>
    /\ session = "none"
    /\ ~IsEmpty(account_info)

OpenSessions == orphaned + (IF session = "open" THEN 1 ELSE 0)

\* C8 (as claimed): however the calls interleave at their awaits, at most
\* one session is open and none is open without self.session referring to
\* it.
C8_OneSessionAnyInterleaving == OpenSessions <= 1 /\ orphaned = 0

\* C8 (amended): the same, as long as no two close calls have been in
\* flight at the same time.
C8_OneSessionOneCloseAtATime ==
    ~closeOverlap => (OpenSessions <= 1 /\ orphaned = 0)

\* A close in flight while another task, in its login, waits for the page.
C8_Witness ==
    /\ ~closeOverlap
    /\ Awaiting(1, "close_wait")
    /\ Awaiting(2, "login_get")
    /\ session = "closed"

\* C9: get_account_info calls login exactly when self.session is empty as
\* it is called; a login that gave false leaves the session in place, and
\* the get_account_info called next goes straight to the summary page.
C9_Gate ==
    Invokes("get_account_info") =>
        (Occurs("call_login", log'[1]) <=> session = "none")

C9_AfterFailedLogin ==
    (Done(1, "login") /\ result[1] = VBool(FALSE) /\ Invokes("get_account_info")) =>
        log'[1] = <<"call_gai", "GET_summary">>

C9_SessionKept ==
    (Done(1, "login") /\ result[1] = VBool(FALSE)) => session = "open"

\* C9: get_account_info calls login exactly when self.session is empty,
\* so not after a login that gave false.
C9_LoginIffNoSession ==
    [](C9_SessionKept) /\ [][C9_Gate]_vars /\ [][C9_AfterFailedLogin]_vars

C9_Witness ==
    /\ op[1] = "get_account_info"
    /\ log[1] = <<"call_gai", "GET_summary">>
    /\ hist[1].post = PostPage(HTTP_OK, TRUE, FALSE)
    /\ IsEmpty(account_info)

\* C10 (as claimed): get_usage_data calls login exactly when self.session
\* is empty as it is called, whatever account_info holds, and with a
\* session in place fetches the usage without a login or an account-info
\* fetch before.
C10_SameGate ==
    Invokes("get_usage_data") =>
        /\ Occurs("call_login", log'[1]) <=> session = "none"
        /\ session # "none" =>
             (~Occurs("GET_login", log'[1]) /\ ~Occurs("call_gai", log'[1]))

\* C10 (as claimed): the gate of get_usage_data is self.session alone.
C10_UsageGateIsSession == [][C10_SameGate]_vars

=============================================================================
